---- MODULE Spec2Model ----
(***************************************************************************)
(* Model of the Raffle page (src/src/pages/Raffle.tsx): the component      *)
(* state, the mount effect that fetches prior winners, the draw handler    *)
(* with its 2-second pause (a closure over the values of the render in     *)
(* which Start Draw was clicked), reset, export, and the weighted draw     *)
(* engine and winner store the page calls (utils/raffle, utils/storage,    *)
(* which are described by the specification only).                         *)
(***************************************************************************)
EXTENDS Integers, Sequences, FiniteSets, TLC

\* ------------------------------------------------------------------ bounds
MaxTyped == 2        \* largest ordinary value typed in "Number of Winners"
RandDenom == 4       \* Math.random() is sampled as n / RandDenom, n < RandDenom
MaxFullRand == 3     \* pools up to this size get every sampled random value
MaxNames == 3        \* names available to the pools of the engine-only spec
MaxTickets == 2      \* largest ticket weight in the engine-only spec
MaxK == 3            \* largest count passed in the engine-only spec

\* ------------------------------------------------------- program constants
MaxWinners == 10     \* Raffle.tsx:241  max={Math.min(10, ...)}

DrawTypes == {"discovery-70", "discovery-80"}

Min(a, b) == IF a < b THEN a ELSE b
Max(a, b) == IF a > b THEN a ELSE b

Names(ws) == {ws[i].name : i \in DOMAIN ws}

Contestant(n, t, d) == [name |-> n, tickets |-> t, drawType |-> d]

VARIABLES
    roster,           \* data behind getAllContestants: DrawType -> sequence
    supabaseWinners,  \* what the remote fetch returns when it succeeds
    localWinners,     \* getWinners() at mount (local cache)
    addedWinners,     \* records returned by addWinner in this session
    selectedDraw, winnerCount, isDrawing, currentWinners, showResults,
    allWinners, isLoading,
    fetchPc,          \* "init" | "inflight" | "resolved" | "failed"
    drawPc,           \* "idle" | "waiting" | "done" | "thrown"
    closure,          \* render values captured by the pending handleDraw,
                      \* NoClosure once the invocation has completed
    exported,         \* argument of the exportToCSV call made by the last
                      \* step, <<>> when that step made none
    dPool, dCount, dExcluded, dResult, dResult2, dPc   \* engine-only spec

mainVars == <<roster, supabaseWinners, localWinners, addedWinners,
              selectedDraw, winnerCount, isDrawing, currentWinners,
              showResults, allWinners, isLoading, fetchPc, drawPc, closure,
              exported>>
engineVars == <<dPool, dCount, dExcluded, dResult, dResult2, dPc>>
vars == <<mainVars, engineVars>>

\* ------------------------------------------------- weighted draw engine
\* (utils/raffle.drawWinners, modelled from the specification, section 4.1)

\* variant: the excluded names are not filtered out
Candidates_unfiltered(pool, excludedNames) == pool

Candidates(pool, excludedNames) ==
    SelectSeq(pool, LAMBDA c : c.name \notin excludedNames)

RECURSIVE TotalTickets(_)
TotalTickets(cands) ==
    IF cands = <<>> THEN 0
    ELSE Head(cands).tickets + TotalTickets(Tail(cands))

\* uniform value in [0, sum): floor(Math.random() * sum), Math.random() = n/RandDenom
RandomValue(n, sum) == (n * sum) \div RandDenom

\* walk accumulating weights until the running total exceeds r
RECURSIVE PickIndex(_, _, _, _)
PickIndex(cands, r, i, running) ==
    IF i > Len(cands) THEN 0
    ELSE IF running + cands[i].tickets > r THEN i
    ELSE PickIndex(cands, r, i + 1, running + cands[i].tickets)

\* variant: the winner stays in the candidate pool (draw with replacement)
RemoveAt_kept(cands, i) == cands

RemoveAt(cands, i) ==
    SubSeq(cands, 1, i - 1) \o SubSeq(cands, i + 1, Len(cands))

EngineError == [ok |-> FALSE, winners |-> <<>>]

RECURSIVE DrawRounds(_, _, _, _, _)
DrawRounds(cands, count, rnd, round, acc) ==
    IF round > count \/ cands = <<>> THEN [ok |-> TRUE, winners |-> acc]
    ELSE IF TotalTickets(cands) <= 0 THEN EngineError
    ELSE LET i == PickIndex(cands, RandomValue(rnd[round], TotalTickets(cands)), 1, 0)
         IN DrawRounds(RemoveAt(cands, i), count, rnd, round + 1,
                       Append(acc, cands[i]))

drawWinners(pool, count, excludedNames, rnd) ==
    DrawRounds(Candidates(pool, excludedNames), count, rnd, 1, <<>>)

\* utils/storage.addWinner: the persisted record (drawDate left out)
addWinner(winner, drawType) ==
    [name |-> winner.name, tickets |-> winner.tickets, drawType |-> drawType]

MapAddWinner(winners, drawType) ==
    [i \in 1..Len(winners) |-> addWinner(winners[i], drawType)]

\* ------------------------------------------------------ render values
getAllContestants(d) == roster[d]
existingWinnerNames == Names(allWinners)
availableContestants ==
    SelectSeq(getAllContestants(selectedDraw),
              LAMBDA c : c.name \notin existingWinnerNames)

\* random inputs sampled for one engine call of n rounds over cands
RandSeqs(n, cands) ==
    IF Len(cands) <= MaxFullRand THEN [1..n -> 0..(RandDenom - 1)]
    ELSE [1..n -> {0}]


\* ------------------------------------------------------------ initial data
SmallRoster ==
    [d \in DrawTypes |->
        IF d = "discovery-70"
        THEN <<Contestant("A", 2, d), Contestant("B", 1, d), Contestant("Z", 0, d)>>
        ELSE <<Contestant("B", 1, d), Contestant("C", 1, d)>>]

WideNames == <<"P01", "P02", "P03", "P04", "P05", "P06", "P07", "P08",
               "P09", "P10", "P11", "P12", "P13">>

\* one pool holding more than MaxWinners contestants, the other empty
WideRoster ==
    [d \in DrawTypes |->
        IF d = "discovery-70"
        THEN [i \in 1..(MaxWinners + 1) |-> Contestant(WideNames[i], 1, d)]
        ELSE <<>>]

PriorWinnerLists ==
    { <<>>,
      <<addWinner(Contestant("A", 2, "discovery-70"), "discovery-70")>>,
      <<addWinner(Contestant("C", 1, "discovery-80"), "discovery-80")>> }

NoClosure == [available |-> <<>>, winnerCount |-> 1,
              existingWinnerNames |-> {}, selectedDraw |-> "discovery-70"]

EngineIdle ==
    /\ dPool = <<>> /\ dCount = 0 /\ dExcluded = {}
    /\ dResult = EngineError /\ dResult2 = EngineError /\ dPc = "off"

\* useState initial values, Raffle.tsx:34-40
ComponentInit ==
    /\ addedWinners = <<>>
    /\ selectedDraw = "discovery-70"
    /\ winnerCount = 1
    /\ isDrawing = FALSE
    /\ currentWinners = <<>>
    /\ showResults = FALSE
    /\ allWinners = localWinners
    /\ isLoading = FALSE
    /\ fetchPc = "init"
    /\ drawPc = "idle"
    /\ closure = NoClosure
    /\ exported = <<>>

Init ==
    /\ roster = SmallRoster
    /\ supabaseWinners \in PriorWinnerLists
    /\ localWinners \in {<<>>, supabaseWinners}
    /\ ComponentInit
    /\ EngineIdle

InitWide ==
    /\ roster = WideRoster
    /\ supabaseWinners = <<>>
    /\ localWinners = <<>>
    /\ ComponentInit
    /\ EngineIdle

\* ------------------------------------------------------------------ actions
\* mount effect: loadWinnersFromSupabase() up to the await
LoadStart ==
    /\ fetchPc = "init"
    /\ isLoading' = TRUE
    /\ fetchPc' = "inflight"
    /\ exported' = <<>>
    /\ UNCHANGED <<roster, supabaseWinners, localWinners, addedWinners,
                   selectedDraw, winnerCount, isDrawing, currentWinners,
                   showResults, allWinners, drawPc, closure>>
    /\ UNCHANGED engineVars

\* the await resolves: setAllWinners(supabaseWinners); finally setIsLoading(false)
LoadResolve ==
    /\ fetchPc = "inflight"
    /\ allWinners' = supabaseWinners
    /\ isLoading' = FALSE
    /\ fetchPc' = "resolved"
    /\ exported' = <<>>
    /\ UNCHANGED <<roster, supabaseWinners, localWinners, addedWinners,
                   selectedDraw, winnerCount, isDrawing, currentWinners,
                   showResults, drawPc, closure>>
    /\ UNCHANGED engineVars

\* variant: no finally block, the loading flag is never cleared
LoadFail_noFinally ==
    /\ fetchPc = "inflight"
    /\ fetchPc' = "failed"
    /\ exported' = <<>>
    /\ UNCHANGED <<roster, supabaseWinners, localWinners, addedWinners,
                   selectedDraw, winnerCount, isDrawing, currentWinners,
                   showResults, allWinners, isLoading, drawPc, closure>>
    /\ UNCHANGED engineVars

\* the await rejects: catch logs; finally setIsLoading(false)
LoadFail ==
    /\ fetchPc = "inflight"
    /\ isLoading' = FALSE
    /\ fetchPc' = "failed"
    /\ exported' = <<>>
    /\ UNCHANGED <<roster, supabaseWinners, localWinners, addedWinners,
                   selectedDraw, winnerCount, isDrawing, currentWinners,
                   showResults, allWinners, drawPc, closure>>
    /\ UNCHANGED engineVars

\* passive effects are flushed before the first user event is handled
Mounted == fetchPc # "init"

\* onClick={() => setSelectedDraw(config.id)}
SelectDraw ==
    /\ Mounted
    /\ \E d \in DrawTypes : selectedDraw' = d
    /\ exported' = <<>>
    /\ UNCHANGED <<roster, supabaseWinners, localWinners, addedWinners,
                   winnerCount, isDrawing, currentWinners, showResults,
                   allWinners, isLoading, fetchPc, drawPc, closure>>
    /\ UNCHANGED engineVars

\* Math.max(1, parseInt(e.target.value) || 1)
OnChangeCount(isNaN, v) == Max(1, IF isNaN \/ v = 0 THEN 1 ELSE v)

TypedInputs == (-1..MaxTyped) \cup {MaxWinners + 1}

SetWinnerCount ==
    /\ Mounted
    /\ ~(isDrawing \/ Len(availableContestants) = 0)
    /\ \E isNaN \in BOOLEAN, v \in TypedInputs :
           winnerCount' = OnChangeCount(isNaN, v)
    /\ exported' = <<>>
    /\ UNCHANGED <<roster, supabaseWinners, localWinners, addedWinners,
                   selectedDraw, isDrawing, currentWinners, showResults,
                   allWinners, isLoading, fetchPc, drawPc, closure>>
    /\ UNCHANGED engineVars

\* handleDraw up to the await: the closure keeps this render's values
HandleDraw ==
    /\ Mounted
    /\ ~(isDrawing \/ Len(availableContestants) = 0)
    /\ isDrawing' = TRUE
    /\ showResults' = FALSE
    /\ currentWinners' = <<>>
    /\ closure' = [available |-> availableContestants,
                   winnerCount |-> winnerCount,
                   existingWinnerNames |-> existingWinnerNames,
                   selectedDraw |-> selectedDraw]
    /\ drawPc' = "waiting"
    /\ exported' = <<>>
    /\ UNCHANGED <<roster, supabaseWinners, localWinners, addedWinners,
                   selectedDraw, winnerCount, allWinners, isLoading, fetchPc>>
    /\ UNCHANGED engineVars

DrawCount(c) == Min(c.winnerCount, Len(c.available))

\* the 2-second timer fires: handleDraw from line 118 to its end
DrawTimer ==
    /\ drawPc = "waiting"
    /\ \E rnd \in RandSeqs(DrawCount(closure), closure.available) :
         LET res == drawWinners(closure.available, DrawCount(closure),
                                closure.existingWinnerNames, rnd)
             savedWinners == MapAddWinner(res.winners, closure.selectedDraw)
         IN IF res.ok
            THEN /\ addedWinners' = addedWinners \o savedWinners
                 /\ currentWinners' = res.winners
                 /\ allWinners' = allWinners \o savedWinners
                 /\ isDrawing' = FALSE
                 /\ showResults' = TRUE
                 /\ drawPc' = "done"
                 /\ closure' = NoClosure
            ELSE \* the exception leaves the async function
                 /\ drawPc' = "thrown"
                 /\ UNCHANGED <<addedWinners, currentWinners, allWinners,
                                isDrawing, showResults, closure>>
    /\ exported' = <<>>
    /\ UNCHANGED <<roster, supabaseWinners, localWinners, selectedDraw,
                   winnerCount, isLoading, fetchPc>>
    /\ UNCHANGED engineVars

HandleReset ==
    /\ showResults
    /\ currentWinners' = <<>>
    /\ showResults' = FALSE
    /\ exported' = <<>>
    /\ UNCHANGED <<roster, supabaseWinners, localWinners, addedWinners,
                   selectedDraw, winnerCount, isDrawing, allWinners,
                   isLoading, fetchPc, drawPc, closure>>
    /\ UNCHANGED engineVars

HandleExportCurrentWinners ==
    /\ showResults /\ Len(currentWinners) > 0
    /\ exported' = [i \in 1..Len(currentWinners) |->
                       [name |-> currentWinners[i].name,
                        tickets |-> currentWinners[i].tickets,
                        drawType |-> selectedDraw]]
    /\ UNCHANGED <<roster, supabaseWinners, localWinners, addedWinners,
                   selectedDraw, winnerCount, isDrawing, currentWinners,
                   showResults, allWinners, isLoading, fetchPc, drawPc,
                   closure>>
    /\ UNCHANGED engineVars

Next ==
    \/ LoadStart
    \/ LoadResolve
    \/ LoadFail
    \/ SelectDraw
    \/ SetWinnerCount
    \/ HandleDraw
    \/ DrawTimer
    \/ HandleReset
    \/ HandleExportCurrentWinners

Spec == Init /\ [][Next]_vars
SpecWide == InitWide /\ [][Next]_vars
\* the browser fires a pending timer
FairSpec == Init /\ [][Next]_vars /\ WF_vars(DrawTimer)


\* ------------------------------------------------- engine-only specification
\* drawWinners applied to bounded pools, counts and excluded sets, then once
\* more with the first winners as the excluded names.
DrawNameList == SubSeq(<<"A", "B", "C", "D", "E">>, 1, MaxNames)
DrawNames == {DrawNameList[i] : i \in 1..MaxNames}

Reverse(q) == [i \in 1..Len(q) |-> q[Len(q) + 1 - i]]

PoolOf(S, t) ==
    SelectSeq([i \in 1..MaxNames |-> Contestant(DrawNameList[i], t[i], "discovery-70")],
              LAMBDA c : \E i \in S : DrawNameList[i] = c.name)

EnginePools ==
    UNION { {PoolOf(S, t), Reverse(PoolOf(S, t))} :
              S \in SUBSET (1..MaxNames), t \in [1..MaxNames -> 0..MaxTickets] }

InitDraw ==
    /\ roster = SmallRoster
    /\ supabaseWinners = <<>>
    /\ localWinners = <<>>
    /\ ComponentInit
    /\ dPool \in EnginePools
    /\ dCount \in 0..MaxK
    /\ dExcluded \in SUBSET DrawNames
    /\ dResult = EngineError
    /\ dResult2 = EngineError
    /\ dPc = "ready"

EngineSelect ==
    /\ dPc = "ready"
    /\ \E rnd \in [1..dCount -> 0..(RandDenom - 1)] :
           dResult' = drawWinners(dPool, dCount, dExcluded, rnd)
    /\ dPc' = "first"
    /\ UNCHANGED <<dPool, dCount, dExcluded, dResult2>>
    /\ UNCHANGED mainVars

EngineSelectAgain ==
    /\ dPc = "first"
    /\ dResult.ok
    /\ \E rnd \in [1..dCount -> 0..(RandDenom - 1)] :
           dResult2' = drawWinners(dPool, dCount, Names(dResult.winners), rnd)
    /\ dPc' = "second"
    /\ UNCHANGED <<dPool, dCount, dExcluded, dResult>>
    /\ UNCHANGED mainVars

NextDraw ==
    \/ EngineSelect
    \/ EngineSelectAgain

SpecDraw == InitDraw /\ [][NextDraw]_vars


\* ------------------------------------------------------------------ claims
Range(q) == {q[i] : i \in DOMAIN q}
Distinct(q) == \A i, j \in DOMAIN q : i # j => q[i] # q[j]
NonExcluded(pool, ex) == {i \in DOMAIN pool : pool[i].name \notin ex}
NewlyAdded == {addedWinners'[i] : i \in (Len(addedWinners) + 1)..Len(addedWinners')}
\* winners the page has been given: the local cache, the session's own
\* winners, and the winner store's list once the fetch has delivered it
PersistedNames ==
    Names(localWinners) \cup Names(addedWinners)
        \cup (IF fetchPc = "resolved" THEN Names(supabaseWinners) ELSE {})

\* C1: a draw never selects a contestant whose name is already among the
\* persisted winners (local cache, winner store, or an earlier draw of the
\* session), however the fetch and the draws interleave.
C1_NoRepeatWinner ==
    [][\A w \in NewlyAdded : w.name \notin PersistedNames]_vars

\* C2: for a pool of positive-ticket contestants the engine returns
\* min(count, non-excluded candidates) pairwise distinct members of the pool,
\* whatever random values are drawn.
C2_DistinctMembers ==
    (dPc = "first" /\ \A i \in DOMAIN dPool : dPool[i].tickets > 0) =>
        /\ dResult.ok
        /\ Len(dResult.winners) =
               Min(dCount, Cardinality(NonExcluded(dPool, dExcluded)))
        /\ Distinct(dResult.winners)
        /\ Range(dResult.winners) \subseteq Range(dPool)

C2_Witness ==
    /\ dPc = "first"
    /\ \A i \in DOMAIN dPool : dPool[i].tickets > 0
    /\ dExcluded = {}
    /\ dCount >= 2 /\ dCount <= Len(dPool)
    /\ Len(dResult.winners) = dCount

\* C3: no returned contestant has an excluded name; a second draw given the
\* first draw's winners as excluded names returns none of them.
C3_NoExcludedName ==
    /\ (dPc \in {"first", "second"} /\ dResult.ok) =>
           Names(dResult.winners) \cap dExcluded = {}
    /\ (dPc = "second" /\ dResult2.ok) =>
           Names(dResult2.winners) \cap Names(dResult.winners) = {}

C3_Witness ==
    /\ dPc = "second"
    /\ dExcluded \cap Names(dPool) # {}
    /\ dResult.winners # <<>>
    /\ dResult2.ok /\ dResult2.winners # <<>>

\* C5: no draw begins while the initial fetch of prior winners is in flight.
C5_NoDrawWhileLoading ==
    [][(drawPc # "waiting" /\ drawPc' = "waiting") => ~isLoading]_vars

\* C6: a failed fetch is not fatal: allWinners keeps its value (the local
\* cache plus the session's winners), isLoading returns to false, a draw can
\* still be started, and a draw that completes excludes exactly the locally
\* held winners.
C6_FetchFailureTolerated ==
    /\ [](fetchPc = "failed" =>
             /\ ~isLoading
             /\ allWinners = localWinners \o addedWinners
             /\ (~isDrawing /\ Len(availableContestants) > 0 => ENABLED HandleDraw))
    /\ [][(fetchPc = "inflight" /\ fetchPc' = "failed") =>
              allWinners' = allWinners]_vars
    /\ [][(fetchPc = "failed" /\ drawPc = "waiting" /\ drawPc' = "done") =>
              /\ closure.existingWinnerNames = Names(allWinners)
              /\ Names(currentWinners') \cap Names(allWinners) = {}
              /\ ~isDrawing' /\ showResults']_vars

C6_Witness ==
    /\ fetchPc = "failed"
    /\ localWinners # <<>>
    /\ drawPc = "done"
    /\ currentWinners # <<>>

\* C7: every exported winner carries the drawType that was passed to
\* addWinner when it was drawn.
C7_ExportKeepsDrawType ==
    \A i \in DOMAIN exported :
        exported[i].drawType =
            addedWinners[Len(addedWinners) - Len(exported) + i].drawType

\* C8: one draw never selects more than min(10, available contestants).
C8_AtMostMaxWinners ==
    [][(drawPc = "waiting" /\ drawPc' = "done") =>
           Len(currentWinners') <= Min(MaxWinners, Len(closure.available))]_vars

\* C9: the names of the winners drawn in this session stay in allWinners.
C9_SessionWinnersStayExcluded ==
    \A i \in DOMAIN addedWinners : addedWinners[i].name \in Names(allWinners)

\* C10: every draw that starts eventually finishes with isDrawing false and
\* the results shown, given that the timer fires.
C10_DrawFinishes ==
    isDrawing ~> (~isDrawing /\ showResults)

====
